---- MODULE Spec2Model ----
(***************************************************************************)
(* charmtools/pullsource.py: `charm pull-source`.                          *)
(*                                                                         *)
(* One invocation of download_item(item, dir_) is modelled step by step,   *)
(* together with CharmstoreRepoDownloader.fetch, the filesystem it reads   *)
(* and writes, and one other process that may create the series directory  *)
(* between download_item's existence check and its os.mkdir call.          *)
(*                                                                         *)
(* Python strings are sequences of one-character strings.  A value that    *)
(* may be None is either such a sequence or the value None below.          *)
(***************************************************************************)
EXTENDS Naturals, Sequences, FiniteSets

VARIABLES
    args,       \* what main() hands to download_item: item and dir, with
                \* the prefix and segments item was written from
    environ,    \* os.environ restricted to the three variables consulted
    run,        \* the invocation download_item(args.item, args.dir)
    twin        \* the invocation download_item("cs:" + args.item, args.dir)
                \* in the same world, kept for bare charm identifiers

vars == <<args, environ, run, twin>>

(***************************** strings *************************************)

None == <<"None">>

Truthy(s) == s # None /\ s # <<>>

\* Python's `a or b`
Or(a, b) == IF Truthy(a) THEN a ELSE b

StartsWith(s, p) == Len(s) >= Len(p) /\ SubSeq(s, 1, Len(p)) = p

Tail_(s, n) == SubSeq(s, n + 1, Len(s))

RECURSIVE SplitFrom(_, _, _, _)
SplitFrom(s, sep, i, cur) ==
    IF i > Len(s) THEN <<cur>>
    ELSE IF s[i] = sep THEN <<cur>> \o SplitFrom(s, sep, i + 1, <<>>)
    ELSE SplitFrom(s, sep, i + 1, Append(cur, s[i]))

\* str.split(sep) for a one-character separator
Split(s, sep) == SplitFrom(s, sep, 1, <<>>)

RECURSIVE Join(_, _)
Join(parts, sep) ==
    IF Len(parts) = 0 THEN <<>>
    ELSE IF Len(parts) = 1 THEN parts[1]
    ELSE parts[1] \o sep \o Join(Tail(parts), sep)

(***************************** constants ***********************************)

LAYER_PREFIX == <<"l", "a", "y", "e", "r", ":">>
INTERFACE_PREFIX == <<"i", "n", "t", "e", "r", "f", "a", "c", "e", ":">>
CHARM_PREFIX == <<"c", "s", ":">>

ERR_DIR_EXISTS == "Aborting, destination directory exists"
ERR_NO_SOURCE == "Can't find source for"

(***************************** paths ***************************************)

CWD == <<"/", "w">>
HOME == <<"/", "h">>

\* os.path.expanduser for the current user: a leading "~" that is the whole
\* first component is replaced by $HOME.
ExpandUser(p) ==
    IF StartsWith(p, <<"~">>) /\ (Len(p) = 1 \/ p[2] = "/")
    THEN HOME \o Tail_(p, 1)
    ELSE p

RECURSIVE DropEmpty(_)
DropEmpty(parts) ==
    IF Len(parts) = 0 THEN <<>>
    ELSE IF parts[1] = <<>> \/ parts[1] = <<".">> THEN DropEmpty(Tail(parts))
    ELSE <<parts[1]>> \o DropEmpty(Tail(parts))

\* The components a path names: what the kernel resolves, so that "/d/",
\* "/d" and "/d//" are one directory.
Components(p) == DropEmpty(Split(p, "/"))

\* os.path.normpath of an absolute path
NormPath(p) == <<"/">> \o Join(Components(p), <<"/">>)

\* os.path.join(a, b)
PathJoin(a, b) ==
    IF StartsWith(b, <<"/">>) THEN b
    ELSE IF a = <<>> \/ a[Len(a)] = "/" THEN a \o b
    ELSE a \o <<"/">> \o b

\* os.path.abspath
AbsPath(p) == NormPath(IF StartsWith(p, <<"/">>) THEN p ELSE PathJoin(CWD, p))

\* os.path.exists against a filesystem given as the set of existing paths,
\* each as its components
Exists(fs, p) == Components(p) \in fs

Parent(c) == SubSeq(c, 1, Len(c) - 1)

(***************************** inputs **************************************)

\* Longest identifier, in "/"-separated segments
MaxSegs == 4

Segments == {<<>>, <<"t">>, <<"~", "b">>}

Prefixes == {<<>>, CHARM_PREFIX, LAYER_PREFIX, INTERFACE_PREFIX}

SegmentLists == UNION {[1..k -> Segments] : k \in 1..MaxSegs}

\* The command line: the identifier written as prefix and segments, and the
\* dir argument
Args(dirs) ==
    {[item |-> p \o Join(f, <<"/">>), dir |-> d, prefix |-> p, segs |-> f] :
        p \in Prefixes, f \in SegmentLists, d \in dirs}

\* The `dir` argument: absent, empty, absolute, relative
DirArgs == {None, <<>>, <<"/", "d">>, <<"r">>}

EnvNames == {"JUJU_REPOSITORY", "LAYER_PATH", "INTERFACE_PATH"}

EnvValues(v) ==
    CASE v = "JUJU_REPOSITORY" -> {None, <<>>, <<"/", "j">>}
      [] v = "LAYER_PATH" -> {None, <<"/", "l">>}
      [] v = "INTERFACE_PATH" -> {None, <<"~", "/", "i">>}

Environs == {e \in [EnvNames -> UNION {EnvValues(v) : v \in EnvNames}] :
                \A v \in EnvNames : e[v] \in EnvValues(v)}

\* os.environ.get(name)
EnvGet(env, name) == env[name]

(***************************** download_item: resolution *******************)

Unbound == <<"Unbound">>

\* Normalize prepending the prefix to every identifier
NormalizeAlways(item) == CHARM_PREFIX \o item

\* Normalize leaving the identifier as written
NormalizeNever(item) == item

\* lines 100-101
Normalize(item) ==
    IF ~StartsWith(item, CHARM_PREFIX) THEN CHARM_PREFIX \o item ELSE item

\* line 103, of the normalized item
UrlParts(item) == Split(Tail_(item, Len(CHARM_PREFIX)), "/")

\* line 104
CharmName(url_parts) == url_parts[Len(url_parts)]

\* SeriesDir without the test for a ~user first segment
SeriesDirNoTilde(url_parts) ==
    IF Len(url_parts) = 2 THEN url_parts[1]
    ELSE IF Len(url_parts) = 3 THEN url_parts[2]
    ELSE None

\* lines 92, 105-108
SeriesDir(url_parts) ==
    IF Len(url_parts) = 2 /\ ~StartsWith(url_parts[1], <<"~">>) THEN url_parts[1]
    ELSE IF Len(url_parts) = 3 THEN url_parts[2]
    ELSE None

\* EnvVarFor with the interface branch reading the layers' variable
EnvVarForLayerTwice(item) ==
    IF StartsWith(item, LAYER_PREFIX) THEN "LAYER_PATH"
    ELSE IF StartsWith(item, INTERFACE_PREFIX) THEN "LAYER_PATH"
    ELSE "JUJU_REPOSITORY"

\* lines 94-99: the environment variable of the identifier's class
EnvVarFor(item) ==
    IF StartsWith(item, LAYER_PREFIX) THEN "LAYER_PATH"
    ELSE IF StartsWith(item, INTERFACE_PREFIX) THEN "INTERFACE_PATH"
    ELSE "JUJU_REPOSITORY"

\* lines 95, 97, 99
DirOrEnv(dir, item, env) == Or(dir, EnvGet(env, EnvVarFor(item)))

\* lines 110-111
AbsDir(dir) == AbsPath(ExpandUser(Or(dir, CWD)))

IsCharm(item) ==
    ~StartsWith(item, LAYER_PREFIX) /\ ~StartsWith(item, INTERFACE_PREFIX)

\* lines 92-111: the locals of download_item when line 113 is reached
Resolve(r, item, dir, env) ==
    LET charm == IsCharm(item)
        it == IF charm THEN Normalize(item) ELSE item
        parts == UrlParts(it)
    IN  [r EXCEPT !.pc = "series",
                  !.item = it,
                  !.dir_ = AbsDir(DirOrEnv(dir, item, env)),
                  !.charm_name = IF charm THEN CharmName(parts) ELSE Unbound,
                  !.series_dir = IF charm THEN SeriesDir(parts) ELSE None]

(***************************** the fetchers ********************************)

VCS_URL == <<"l", "p", ":", "x">>
JUNK_URL == <<"x">>

\* What the extra-info document holds under 'bzr-url': no such key (or null),
\* an empty string, a URL a registered fetcher matches, one none matches
BzrUrls == {None, <<>>, VCS_URL, JUNK_URL}

\* fetchers.get_fetcher(url): the fetchers that may come back for url, and
\* "FetchError" where the lookup may raise it.  The registry is searched in
\* order and CharmstoreRepoDownloader is its first entry (line 88).
GetFetcher(url) ==
    IF StartsWith(url, INTERFACE_PREFIX) THEN {"InterfaceFetcher", "FetchError"}
    ELSE IF StartsWith(url, LAYER_PREFIX) THEN {"LayerFetcher", "FetchError"}
    ELSE IF StartsWith(url, CHARM_PREFIX)
        THEN {"CharmstoreRepoDownloader", "FetchError"}
    ELSE IF StartsWith(url, <<"l", "p", ":">>) THEN {"VCSFetcher"}
    ELSE {"FetchError"}

\* isinstance(fetcher, fetchers.InterfaceFetcher)
IsInterfaceFetcher(fetcher) == fetcher = "InterfaceFetcher"

\* InterfaceFetcher.target(dir_): the final path under dir_
Target(item, dir) == PathJoin(dir, Tail_(item, Len(INTERFACE_PREFIX)))

\* The path a fetcher's fetch(dir_) fills and returns
FetchDest(r) ==
    IF IsInterfaceFetcher(r.fetcher) THEN Target(r.item, r.dir_)
    ELSE IF StartsWith(r.item, LAYER_PREFIX)
        THEN PathJoin(r.dir_, Tail_(r.item, Len(LAYER_PREFIX)))
    ELSE PathJoin(r.dir_, r.charm_name)

Strategies ==
    {"CharmstoreDownloader", "VCSFetcher", "InterfaceFetcher", "LayerFetcher"}

\* Which strategies' fetch would succeed if invoked; the others raise
\* FetchError
Outcomes == [Strategies -> BOOLEAN]

\* A fetch: the strategies invoked, in order, and whether it returned (ok)
\* or raised FetchError
Fetched(calls, ok) == [calls |-> calls, ok |-> ok]

\* CharmstoreDownloader.fetch, reached through super() on lines 82 and 86
StoreFetch(okOf) == Fetched(<<"CharmstoreDownloader">>, okOf["CharmstoreDownloader"])

\* RepoFetch with the lookup's FetchError left uncaught
RepoFetchNoFallback(repo_url, answer, okOf) ==
    IF Truthy(repo_url)
    THEN IF answer = "FetchError" THEN Fetched(<<>>, FALSE)
         ELSE Fetched(<<answer>>, okOf[answer])
    ELSE StoreFetch(okOf)

\* RepoFetch with the delegated fetch inside the try: its FetchError falls
\* back to the store
RepoFetchRetry(repo_url, answer, okOf) ==
    IF Truthy(repo_url)
    THEN IF answer = "FetchError" THEN StoreFetch(okOf)
         ELSE IF okOf[answer] THEN Fetched(<<answer>>, TRUE)
         ELSE Fetched(<<answer>> \o StoreFetch(okOf).calls, StoreFetch(okOf).ok)
    ELSE StoreFetch(okOf)

\* CharmstoreRepoDownloader.fetch, lines 72-86, for the 'bzr-url' read and
\* the answer of get_fetcher(repo_url).  The delegated fetch of line 84 is in
\* the else clause, outside the try: its FetchError leaves the method.
RepoFetch(repo_url, answer, okOf) ==
    IF Truthy(repo_url)
    THEN IF answer = "FetchError" THEN StoreFetch(okOf)
         ELSE Fetched(<<answer>>, okOf[answer])
    ELSE StoreFetch(okOf)

\* fetcher.fetch(dir_), line 130
FetcherFetch(fetcher, repo_url, answer, okOf) ==
    IF fetcher = "CharmstoreRepoDownloader" THEN RepoFetch(repo_url, answer, okOf)
    ELSE Fetched(<<fetcher>>, okOf[fetcher])

(***************************** download_item: the steps ********************)

Msg(fmt, arg) == [fmt |-> fmt, arg |-> arg]

NoResult == Msg("", <<>>)
ReturnedNone == Msg("None", <<>>)

Return(r, value) == [r EXCEPT !.pc = "returned", !.result = value]

Raise(r, e) == [r EXCEPT !.pc = "raised", !.exc = e]

\* SeriesCheck without line 117 when the directory exists
SeriesCheckNoDescend(r) ==
    IF Truthy(r.series_dir)
    THEN LET series_path == PathJoin(r.dir_, r.series_dir) IN
         IF ~Exists(r.fs, series_path)
         THEN [r EXCEPT !.pc = "mkdir", !.series_path = series_path]
         ELSE [r EXCEPT !.pc = "lookup", !.series_path = series_path]
    ELSE [r EXCEPT !.pc = "lookup"]

\* lines 113-115, and line 117 when the directory exists
SeriesCheck(r) ==
    IF Truthy(r.series_dir)
    THEN LET series_path == PathJoin(r.dir_, r.series_dir) IN
         IF ~Exists(r.fs, series_path)
         THEN [r EXCEPT !.pc = "mkdir", !.series_path = series_path]
         ELSE [r EXCEPT !.pc = "lookup", !.series_path = series_path,
                        !.dir_ = series_path]
    ELSE [r EXCEPT !.pc = "lookup"]

\* os.mkdir(path): fails when the path exists, when its parent does not, and
\* for whatever other reason the system has (denied)
Mkdir(r, path, denied) ==
    IF Exists(r.fs, path) THEN Raise(r, "OSError(EEXIST)")
    ELSE IF Parent(Components(path)) \notin r.fs THEN Raise(r, "OSError(ENOENT)")
    ELSE IF denied THEN Raise(r, "OSError(EACCES)")
    ELSE [r EXCEPT !.fs = @ \cup {Components(path)},
                   !.made = @ \cup {Components(path)}]

\* lines 116-117
SeriesMkdir(r, denied) ==
    LET m == Mkdir(r, r.series_path, denied) IN
    IF m.pc = "raised" THEN m
    ELSE [m EXCEPT !.pc = "lookup", !.dir_ = r.series_path]

\* line 120, and line 132 when the lookup raises
Lookup(r, answer) ==
    IF answer = "FetchError" THEN Return(r, Msg(ERR_NO_SOURCE, r.item))
    ELSE [r EXCEPT !.pc = "collision", !.fetcher = answer]

\* line 119: the try block is entered
Try(r) == [r EXCEPT !.fs_at_try = r.fs]

\* lines 121-128
Collision(r) ==
    IF IsInterfaceFetcher(r.fetcher)
    THEN LET target == Target(r.item, r.dir_) IN
         IF Exists(r.fs, target)
         THEN Return([r EXCEPT !.checked = target], Msg(ERR_DIR_EXISTS, target))
         ELSE [r EXCEPT !.pc = "fetch", !.checked = target]
    ELSE IF r.charm_name = Unbound THEN Raise(r, "UnboundLocalError")
    ELSE LET final_dest_dir == PathJoin(r.dir_, r.charm_name) IN
         IF Exists(r.fs, final_dest_dir)
         THEN Return([r EXCEPT !.checked = final_dest_dir],
                     Msg(ERR_DIR_EXISTS, final_dest_dir))
         ELSE [r EXCEPT !.pc = "fetch", !.checked = final_dest_dir]

\* lines 130-134.  When the fetcher is CharmstoreRepoDownloader the step
\* takes the 'bzr-url' its metadata query reads and the answer of
\* get_fetcher(repo_url); a fetch that fails leaves the filesystem as it was.
Fetch(r, repo_url, answer, okOf) ==
    LET repo == r.fetcher = "CharmstoreRepoDownloader"
        f == FetcherFetch(r.fetcher, repo_url, answer, okOf)
        called == [r EXCEPT !.calls = @ \o f.calls,
                            !.repo_url = IF repo THEN repo_url ELSE None,
                            !.answer = IF repo /\ Truthy(repo_url) THEN answer ELSE "",
                            !.fetch_ok = IF f.ok THEN "ok" ELSE "FetchError"]
        dest == FetchDest(r)
    IN  IF f.ok
        THEN Return([called EXCEPT !.fs = @ \cup {Components(dest)},
                                   !.out = Msg("Downloaded", r.item \o <<" to ">> \o dest)],
                    ReturnedNone)
        ELSE Return(called, Msg(ERR_NO_SOURCE, r.item))

(***************************** the state machine ***************************)

NewRun(fs) ==
    [pc |-> "start", item |-> <<>>, dir_ |-> None, series_dir |-> None,
     series_path |-> None, charm_name |-> Unbound, fetcher |-> "",
     checked |-> None, result |-> NoResult, exc |-> "", fs |-> fs,
     made |-> {}, calls |-> <<>>, repo_url |-> None, answer |-> "",
     fetch_ok |-> "", out |-> NoResult,
     \* history: the filesystem at the start and at line 119, and whether
     \* the other process created the series directory
     fs_start |-> fs, fs_at_try |-> {}, raced |-> FALSE]

\* The identifier of the twin invocation
TwinItem(item) ==
    IF IsCharm(item) /\ ~StartsWith(item, CHARM_PREFIX)
    THEN CHARM_PREFIX \o item ELSE item

\* The paths an invocation looks at: the base directory, the destination and
\* the collision-check target
Looked(item, dir, env) ==
    LET r == Resolve(NewRun({}), item, dir, env)
        dest == IF Truthy(r.series_dir) THEN PathJoin(r.dir_, r.series_dir)
                ELSE r.dir_
        name == IF StartsWith(item, LAYER_PREFIX) THEN Tail_(item, Len(LAYER_PREFIX))
                ELSE IF StartsWith(item, INTERFACE_PREFIX)
                    THEN Tail_(item, Len(INTERFACE_PREFIX))
                ELSE r.charm_name
    IN  {Components(r.dir_), Components(dest), Components(PathJoin(dest, name))}

\* The filesystems an invocation may start in: the current directory exists
\* (os.getcwd() names it), and a directory exists only inside an existing one
Filesystems(item, dir, env) ==
    LET looked == Looked(item, dir, env) \cup {Components(CWD)} IN
    {fs \in SUBSET looked :
        /\ Components(CWD) \in fs
        /\ \A c \in fs : Parent(c) \in looked => Parent(c) \in fs}

RunDirArgs == {None, <<"/", "d">>}

RunEnvirons ==
    {e \in Environs : (\A v \in EnvNames : e[v] = None)
                      \/ (\A v \in EnvNames : Truthy(e[v]))}

Init ==
    /\ args \in Args(RunDirArgs)
    /\ environ \in RunEnvirons
    /\ \E fs \in Filesystems(args.item, args.dir, environ) :
          /\ run = NewRun(fs)
          /\ twin = NewRun(fs)

\* Both invocations take the step; the twin only while it is where run is
Both(Step(_)) ==
    /\ run' = Step(run)
    /\ twin' = IF twin.pc = run.pc THEN Step(twin) ELSE twin
    /\ UNCHANGED <<args, environ>>

ResolveStep ==
    /\ run.pc = "start"
    /\ run' = Resolve(run, args.item, args.dir, environ)
    /\ twin' = Resolve(twin, TwinItem(args.item), args.dir, environ)
    /\ UNCHANGED <<args, environ>>

SeriesCheckStep ==
    /\ run.pc = "series"
    /\ LET S(r) == SeriesCheck(r) IN Both(S)

SeriesMkdirStep ==
    /\ run.pc = "mkdir"
    /\ \E denied \in BOOLEAN :
          LET S(r) == SeriesMkdir(r, denied) IN Both(S)

\* Another process creates the series directory after the check of line 115
\* and before the os.mkdir of line 116
OtherProcessMkdir ==
    /\ run.pc = "mkdir"
    /\ ~Exists(run.fs, run.series_path)
    /\ Parent(Components(run.series_path)) \in run.fs
    /\ LET S(r) == [r EXCEPT !.fs = @ \cup {Components(run.series_path)},
                             !.raced = TRUE]
       IN Both(S)

LookupStep ==
    /\ run.pc = "lookup"
    /\ \E answer \in GetFetcher(run.item) :
          LET S(r) == Lookup(Try(r), answer) IN Both(S)

CollisionStep ==
    /\ run.pc = "collision"
    /\ LET S(r) == Collision(r) IN Both(S)

FetchStep ==
    /\ run.pc = "fetch"
    /\ \E repo_url \in BzrUrls, okOf \in Outcomes :
          \E answer \in GetFetcher(repo_url) :
             LET S(r) == Fetch(r, repo_url, answer, okOf) IN Both(S)

Next ==
    \/ ResolveStep
    \/ SeriesCheckStep
    \/ SeriesMkdirStep
    \/ OtherProcessMkdir
    \/ LookupStep
    \/ CollisionStep
    \/ FetchStep

Spec == Init /\ [][Next]_vars

\* The resolver alone (lines 92-111), over every identifier, dir argument
\* and environment
InitResolver ==
    /\ args \in Args(DirArgs)
    /\ environ \in Environs
    /\ run = NewRun({})
    /\ twin = NewRun({})

NextResolver == ResolveStep

SpecResolver == InitResolver /\ [][NextResolver]_vars

(***************************** the claims **********************************)

\* The identifier as written, by class
WrittenCharm == args.prefix \in {<<>>, CHARM_PREFIX}
WrittenBare == args.prefix = <<>>

\* The identifier with the charm prefix written out
Prefixed == IF WrittenBare THEN CHARM_PREFIX \o args.item ELSE args.item

\* download_item has passed line 120 with a fetcher
HasFetcher == run.fetcher # ""
\* download_item is past the collision check of lines 121-128
PastCollision == HasFetcher /\ run.pc \in {"fetch", "returned", "raised"}
\* get_fetcher(item) raised FetchError
NoFetcherFound == run.pc = "returned" /\ run.fetcher = ""
\* fetcher.fetch was called
FetchCalled == run.calls # <<>>

\* The name an identifier ends in: its last "/"-separated segment
WrittenName == args.segs[Len(args.segs)]

\* The collision-check target as the specification gives it
SpecTarget ==
    IF run.fetcher = "InterfaceFetcher" THEN Target(run.item, run.dir_)
    ELSE run.dir_ \o <<"/">> \o WrittenName

C2_ReportsItemAsPassed ==
    NoFetcherFound
        => run.result = Msg(ERR_NO_SOURCE, args.item) /\ ~FetchCalled

\* C2 as amended: when no fetcher is found the message names the identifier
\* with the charm prefix written out (cs:foo for a bare foo; layer: and
\* interface: identifiers as passed), and fetch is never called.
C2_ReportsPrefixedItem ==
    NoFetcherFound
        => run.result = Msg(ERR_NO_SOURCE, Prefixed) /\ ~FetchCalled

C2_Witness ==
    NoFetcherFound /\ WrittenBare /\ run.result = Msg(ERR_NO_SOURCE, Prefixed)

SeriesCreationErrors == {"OSError(EEXIST)", "OSError(ENOENT)", "OSError(EACCES)"}

C4_PrefixIsOptional == (WrittenBare /\ run.pc # "start") => run = twin

C4_Witness ==
    /\ WrittenBare /\ run = twin
    /\ run.pc = "returned" /\ FetchCalled /\ run.made # {}

\* The series the specification derives from the written segments
NoTilde(seg) == seg = <<>> \/ seg[1] # "~"

\* C5: for a charm identifier the series is the first segment iff there are
\* exactly two segments and the first does not start with "~", the second
\* segment iff there are exactly three, and absent otherwise; layer and
\* interface identifiers have no series.
C5_Series ==
    run.pc # "start" =>
        LET n == Len(args.segs) IN
        IF WrittenCharm /\ n = 2 /\ NoTilde(args.segs[1])
            THEN run.series_dir = args.segs[1]
        ELSE IF WrittenCharm /\ n = 3 THEN run.series_dir = args.segs[2]
        ELSE run.series_dir = None

C5_Witness ==
    /\ run.pc # "start" /\ WrittenCharm
    /\ args.segs = <<<<"~", "b">>, <<"t">>, <<>>>>
    /\ run.series_dir = <<"t">>

\* The environment variable of the identifier's class, from its prefix
ClassVar ==
    IF args.prefix = LAYER_PREFIX THEN "LAYER_PATH"
    ELSE IF args.prefix = INTERFACE_PREFIX THEN "INTERFACE_PATH"
    ELSE "JUJU_REPOSITORY"

\* The absolute path of each directory the inputs name
AbsOf(d) ==
    CASE d = <<>> -> <<"/", "w">>
      [] d = <<"/", "d">> -> <<"/", "d">>
      [] d = <<"r">> -> <<"/", "w", "/", "r">>
      [] d = <<"/", "j">> -> <<"/", "j">>
      [] d = <<"/", "l">> -> <<"/", "l">>
      [] d = <<"~", "/", "i">> -> <<"/", "h", "/", "i">>

\* The base directory by precedence: dir when given, else the class's
\* variable when set, else the current directory
BaseByPrecedence(given) ==
    IF given THEN AbsOf(args.dir)
    ELSE IF environ[ClassVar] # None THEN AbsOf(environ[ClassVar])
    ELSE <<"/", "w">>

FooUnset ==
    /\ WrittenBare /\ args.segs = <<<<"t">>>>
    /\ args.dir = None /\ environ["JUJU_REPOSITORY"] = None

\* C6 as claimed: a dir argument, whenever given, is the base directory;
\* otherwise the variable of the identifier's class is; otherwise the
\* current directory, so that a bare foo with both unset goes to <cwd>/foo.
C6_GivenDirWins ==
    run.pc # "start" =>
        /\ run.dir_ = BaseByPrecedence(args.dir # None)
        /\ FooUnset => PathJoin(run.dir_, run.charm_name) = <<"/", "w", "/", "t">>

\* C6 as amended: a non-empty dir argument is the base directory; when dir
\* is not given or is the empty string the variable of the identifier's
\* class is; otherwise the current directory, so that a bare foo with both
\* unset goes to <cwd>/foo.
C6_NonEmptyDirWins ==
    run.pc # "start" =>
        /\ run.dir_ = BaseByPrecedence(args.dir \notin {None, <<>>})
        /\ FooUnset => PathJoin(run.dir_, run.charm_name) = <<"/", "w", "/", "t">>

C6_Witness ==
    /\ run.pc # "start"
    /\ args.prefix = LAYER_PREFIX /\ args.dir = None
    /\ environ["LAYER_PATH"] = <<"/", "l">>
    /\ environ["JUJU_REPOSITORY"] = <<"/", "j">>
    /\ run.dir_ = <<"/", "l">>

\* CharmstoreRepoDownloader.fetch has run
RepoFetched == run.fetcher = "CharmstoreRepoDownloader" /\ run.fetch_ok # ""

\* C7: CharmstoreRepoDownloader.fetch invokes exactly one strategy: the
\* fetcher get_fetcher returns for a bzr-url it recognizes, and the default
\* store fetch when no fetcher recognizes the bzr-url (whose result is then
\* the caller's, without error) or when there is no bzr-url.
C7_OneStrategy ==
    RepoFetched =>
        /\ Len(run.calls) = 1
        /\ (run.repo_url = VCS_URL) => run.calls = <<"VCSFetcher">>
        /\ (run.repo_url = JUNK_URL) =>
              /\ run.calls = <<"CharmstoreDownloader">>
              /\ run.fetch_ok = "ok" => run.result = ReturnedNone
        /\ (run.repo_url \in {None, <<>>}) => run.calls = <<"CharmstoreDownloader">>

C7_Witness ==
    /\ RepoFetched /\ run.repo_url = JUNK_URL /\ run.answer = "FetchError"
    /\ run.calls = <<"CharmstoreDownloader">> /\ run.result = ReturnedNone

\* The series of the written segments
WrittenSeries ==
    LET n == Len(args.segs) IN
    IF WrittenCharm /\ n = 2 /\ NoTilde(args.segs[1]) THEN args.segs[1]
    ELSE IF WrittenCharm /\ n = 3 THEN args.segs[2]
    ELSE None

\* download_item is past lines 113-117 without an error there
PastSeries == run.pc \in {"lookup", "collision", "fetch", "returned"}

\* <base>/<series> and the directories download_item must have made for it
SeriesPath == PathJoin(BaseByPrecedence(args.dir # None), WrittenSeries)

SeriesDirInPlace ==
    /\ Components(SeriesPath) \in run.fs
    /\ Components(run.dir_) = Components(SeriesPath)
    /\ run.made = IF Components(SeriesPath) \in run.fs_start THEN {}
                  ELSE {Components(SeriesPath)}
    /\ run.checked # None =>
          Components(run.checked) = Components(PathJoin(SeriesPath, WrittenName))

\* C8 as claimed: with a derived series, <base>/<series> exists from before
\* the fetcher lookup on, made by download_item if it was absent, and is
\* the destination of the collision check and of fetch on every outcome;
\* without one, download_item makes no directory.
C8_SeriesDirectory ==
    PastSeries =>
        IF WrittenSeries # None THEN SeriesDirInPlace ELSE run.made = {}

\* C8 as amended: the same for a derived series that is not the empty
\* string; with no series or an empty one, download_item makes no directory.
C8_NonEmptySeriesDirectory ==
    PastSeries =>
        IF Truthy(WrittenSeries)
        THEN SeriesDirInPlace /\ run.dir_ = SeriesPath
        ELSE run.made = {} /\ run.dir_ = BaseByPrecedence(args.dir # None)

C8_Witness ==
    /\ run.pc = "returned" /\ run.result.fmt = ERR_DIR_EXISTS
    /\ Truthy(WrittenSeries)
    /\ run.made = {Components(SeriesPath)}
    /\ Components(SeriesPath) \in run.fs

\* C9: a fetch that fails with FetchError makes download_item return
\* "Can't find source for <item>"; at most one strategy's fetch is
\* attempted in an invocation, and after a delegated VCS fetch fails the
\* default store fetch is not attempted.
C9_NoRetry ==
    /\ Len(run.calls) <= 1
    /\ run.fetch_ok = "FetchError" =>
          /\ run.pc = "returned"
          /\ run.result = Msg(ERR_NO_SOURCE, Prefixed)
          /\ run.answer = "VCSFetcher" => run.calls = <<"VCSFetcher">>

C9_Witness ==
    /\ run.fetch_ok = "FetchError" /\ run.answer = "VCSFetcher"
    /\ run.calls = <<"VCSFetcher">>
    /\ run.result = Msg(ERR_NO_SOURCE, Prefixed)

\* C10: when another process creates <base>/<series> between the existence
\* check and os.mkdir, the invocation goes on to the fetcher lookup; only
\* another failure of the creation ends it abnormally.
C10_RaceIsBenign ==
    (run.raced /\ run.pc # "mkdir") => run.pc # "raised"

====
